---------------------------- MODULE Spec2Model ----------------------------
(***************************************************************************)
(* Wave function collapse (src/main.rs): rule and frequency learning from  *)
(* a sample image (generation_init), candidate narrowing (remove_choices,  *)
(* update_possible_tiles), reveal (choose_tile, reveal) and the row-major  *)
(* synthesis driver (main).                                                *)
(***************************************************************************)
EXTENDS Integers, Sequences, FiniteSets, TLC

VARIABLES
    pc,            \* position of the program / of the call harness
    image,         \* result of io::read: the sample image, or NoImage
    rotate_rules,  \* generation_init's rotate_rules parameter
    ruleset,       \* HashSet<Rule>
    frequencies,   \* HashMap<TileType, u32>: a function on the tiles that have an entry
    width,         \* loop variable `width` of the running loop
    height,        \* loop variable `height` of the running loop
    board,         \* Vec<Vec<Tile>>: board[height][width]
    steps,         \* number of reveal calls main has made
    args,          \* arguments (and the cell before the call) of the latest direct call
    out            \* result of a direct remove_choices call

vars == <<pc, image, rotate_rules, ruleset, frequencies, width, height, board, steps, args, out>>

----------------------------------------------------------------------------
(* Bounds of the model *)

\* largest number of pixels (width * height) of the enumerated small samples
MaxPixels == 4

\* board columns (main allocates 20)
GridW == 2

\* board rows (main allocates 20)
GridH == 2

\* largest RuleSet handed to a directly called function
MaxRules == 1

\* largest count in the Frequencies handed to a directly called reveal
MaxFreq == 1

\* largest count in the Frequencies handed to a directly called choose_tile
MaxCount == 3

----------------------------------------------------------------------------
(* Integer widths *)

I8_MAX == 127

I8_MIN == -128

\* u32::MAX is 4294967295; TLC's integers are 32-bit signed, so the saturation
\* limit is held at the largest value TLC represents. No count of the model
\* comes near either number.
U32_MAX == 2147483647

\* i8::try_from(n) is Ok for an unsigned n
FitsI8(n) == n <= I8_MAX

\* a.checked_add(b).unwrap_or(i8::MAX) on i8
CheckedAddOrMax(a, b) == IF a + b > I8_MAX \/ a + b < I8_MIN THEN I8_MAX ELSE a + b

----------------------------------------------------------------------------
(* Direction *)

Directions == {"Up", "Down", "Left", "Right"}

\* Direction::iter(): declaration order
DirectionIter == <<"Up", "Down", "Left", "Right">>

get_deltas(d) ==
    CASE d = "Up" -> <<0, -1>>
      [] d = "Down" -> <<0, 1>>
      [] d = "Left" -> <<-1, 0>>
      [] d = "Right" -> <<1, 0>>

get_opposite(d) ==
    CASE d = "Up" -> "Down"
      [] d = "Down" -> "Up"
      [] d = "Left" -> "Right"
      [] d = "Right" -> "Left"

----------------------------------------------------------------------------
(* TileType: an rgb triple *)

INVALID_TILE == <<255, 0, 0>>

WATER_TILE == <<63, 72, 204>>

COAST_TILE == <<255, 201, 14>>

GRASS_TILE == <<34, 177, 76>>

\* Option::None of from_pixel
None == <<>>

\* image.get_pixel(x, y): the channel values of the pixel
get_pixel(img, x, y) == img.data[<<x, y>>]

\* TileType::from_pixel: the first three channel values, None when there are fewer
from_pixel(img, x, y) ==
    LET raw_pixel == get_pixel(img, x, y)
    IN  IF Len(raw_pixel) < 3 THEN None ELSE SubSeq(raw_pixel, 1, 3)

----------------------------------------------------------------------------
(* Rule *)

RuleNew(from, to, direction) == [from |-> from, to |-> to, direction |-> direction]

\* the reverse rule with the direction left as it is
RuleReverseSameDirection(from, to, direction) ==
    [from |-> to, to |-> from, direction |-> direction]

RuleReverse(from, to, direction) ==
    [from |-> to, to |-> from, direction |-> get_opposite(direction)]

get_all_tile_types(rs) == {r.from : r \in rs} \cup {r.to : r \in rs}

----------------------------------------------------------------------------
(* Rule and frequency learning *)

\* the inner `for rotate_direction` loop (lines 176-181)
RotatedRules(from, to, rot) ==
    IF rot
    THEN {RuleNew(from, to, rd) : rd \in Directions}
             \cup {RuleReverse(from, to, rd) : rd \in Directions}
    ELSE {}

\* the neighbour index held at 0 instead of going negative
RawNeighbourClampedAtZero(w, h, d) ==
    <<IF CheckedAddOrMax(get_deltas(d)[1], w) < 0 THEN 0 ELSE CheckedAddOrMax(get_deltas(d)[1], w),
      IF CheckedAddOrMax(get_deltas(d)[2], h) < 0 THEN 0 ELSE CheckedAddOrMax(get_deltas(d)[2], h)>>

\* raw_new_w, raw_new_h (lines 156-161), once both i8::try_from succeeded
RawNeighbour(w, h, d) ==
    <<CheckedAddOrMax(get_deltas(d)[1], w), CheckedAddOrMax(get_deltas(d)[2], h)>>

\* add_adjacent_rules from the i-th direction on; a `return` of the macros ends
\* the whole call with the rules inserted so far
RECURSIVE AddAdjacentFrom(_, _, _, _, _, _)
AddAdjacentFrom(rs, img, w, h, rot, i) ==
    IF i > Len(DirectionIter) THEN rs
    ELSE
    LET direction == DirectionIter[i]
        from == from_pixel(img, w, h)
    IN  IF ~FitsI8(w) \/ ~FitsI8(h) THEN rs
        ELSE
        LET raw == RawNeighbour(w, h, direction)
        IN  IF raw[1] < 0 \/ raw[2] < 0
            THEN AddAdjacentFrom(rs, img, w, h, rot, i + 1)
            ELSE IF raw[1] \in 0..(img.w - 1) /\ raw[2] \in 0..(img.h - 1)
            THEN LET to == from_pixel(img, raw[1], raw[2])
                 IN  IF to = None THEN rs
                     ELSE AddAdjacentFrom(
                              rs \cup {RuleNew(from, to, direction),
                                       RuleReverse(from, to, direction)}
                                 \cup RotatedRules(from, to, rot),
                              img, w, h, rot, i + 1)
            ELSE AddAdjacentFrom(rs, img, w, h, rot, i + 1)

add_adjacent_rules(rs, img, w, h, rot) ==
    IF from_pixel(img, w, h) = None THEN rs
    ELSE AddAdjacentFrom(rs, img, w, h, rot, 1)

\* the count wrapping around to 0 at the limit
WrappingInc(f) == IF f >= U32_MAX THEN 0 ELSE f + 1

\* checked_add(1).unwrap_or(u32::MAX)
SaturatingInc(f) == IF f >= U32_MAX THEN U32_MAX ELSE f + 1

\* the first pixel of a tile type entered as 0 instead of 1
update_frequencies_first_is_zero(fr, img, w, h) ==
    IF from_pixel(img, w, h) = None THEN fr
    ELSE IF from_pixel(img, w, h) \notin DOMAIN fr
    THEN [t \in DOMAIN fr \cup {from_pixel(img, w, h)} |-> IF t \in DOMAIN fr THEN fr[t] ELSE 0]
    ELSE [fr EXCEPT ![from_pixel(img, w, h)] = SaturatingInc(fr[from_pixel(img, w, h)])]

update_frequencies(fr, img, w, h) ==
    LET tile == from_pixel(img, w, h)
    IN  IF tile = None THEN fr
        ELSE IF tile \notin DOMAIN fr
        THEN [t \in DOMAIN fr \cup {tile} |-> IF t = tile THEN 1 ELSE fr[t]]
        ELSE [fr EXCEPT ![tile] = SaturatingInc(fr[tile])]

\* the map of the 0 entries alone, the counted entries dropped
FillFrequenciesOnlyMissing(fr, rs) ==
    [t \in get_all_tile_types(rs) \ DOMAIN fr |-> 0]

\* lines 220-224: every tile type of the rules gets an entry, 0 when it has none
FillFrequencies(fr, rs) ==
    [t \in DOMAIN fr \cup get_all_tile_types(rs) |-> IF t \in DOMAIN fr THEN fr[t] ELSE 0]

----------------------------------------------------------------------------
(* Tile and narrowing *)

Revealed(t) == [tag |-> "Revealed", tile |-> t]

Hidden(c) == [tag |-> "Hidden", choices |-> c]

IsRevealed(cell) == cell.tag = "Revealed"

IsHidden(cell) == cell.tag = "Hidden"

\* board.get(h) and row.get(w) are both Some
HasCell(b, w, h) == h \in DOMAIN b /\ w \in DOMAIN b[h]

\* the rules of the source tile in any direction
allowed_from_source_any_direction(source_tile, direction, rs) ==
    {r.to : r \in {q \in rs : q.from = source_tile}}

\* lines 268-273
allowed_from_source(source_tile, direction, rs) ==
    {r.to : r \in {q \in rs : q.from = source_tile /\ q.direction = direction}}

\* the candidates replaced by the allowed tiles instead of narrowed by them
remove_choices_replaces(source_tile, direction, rs, original_choices) ==
    {r.to : r \in {q \in rs : q.from = source_tile /\ q.direction = direction}}

remove_choices(source_tile, direction, rs, original_choices) ==
    LET all_tile_types == get_all_tile_types(rs)
        choices_to_remove == all_tile_types \ allowed_from_source(source_tile, direction, rs)
    IN  original_choices \ choices_to_remove

\* narrowing that does not look at the neighbour's variant: a Revealed neighbour is
\* narrowed as a candidate set holding its tile
update_possible_tiles_any_variant(b, rs, w, h, direction) ==
    IF ~HasCell(b, w, h) THEN b
    ELSE IF b[h][w].tag # "Revealed" THEN b
    ELSE
    LET source_tile == b[h][w].tile
        new_w == CheckedAddOrMax(get_deltas(direction)[1], w)
        new_h == CheckedAddOrMax(get_deltas(direction)[2], h)
    IN  IF new_w < 0 \/ new_h < 0 THEN b
        ELSE IF ~(new_h \in DOMAIN b /\ new_w \in DOMAIN b[new_h]) THEN b
        ELSE LET cell == b[new_h][new_w]
                 choices == IF cell.tag = "Hidden" THEN cell.choices ELSE {cell.tile}
             IN  [b EXCEPT ![new_h][new_w] =
                     [tag |-> "Hidden",
                      choices |-> choices \ (get_all_tile_types(rs)
                                    \ {r.to : r \in {q \in rs : q.from = source_tile
                                                           /\ q.direction = direction}})]]

\* narrowing by the rules of the opposite direction
update_possible_tiles_opposite_rules(b, rs, w, h, direction) ==
    IF ~HasCell(b, w, h) THEN b
    ELSE IF ~IsRevealed(b[h][w]) THEN b
    ELSE
    LET new_w == CheckedAddOrMax(get_deltas(direction)[1], w)
        new_h == CheckedAddOrMax(get_deltas(direction)[2], h)
    IN  IF new_w < 0 \/ new_h < 0 THEN b
        ELSE IF ~HasCell(b, new_w, new_h) THEN b
        ELSE IF IsHidden(b[new_h][new_w])
        THEN [b EXCEPT ![new_h][new_w] =
                 Hidden(remove_choices(b[h][w].tile, get_opposite(direction), rs,
                                       b[new_h][new_w].choices))]
        ELSE b

update_possible_tiles(b, rs, w, h, direction) ==
    IF ~HasCell(b, w, h) THEN b
    ELSE IF ~IsRevealed(b[h][w]) THEN b
    ELSE
    LET source_tile == b[h][w].tile
    IN  IF ~FitsI8(w) \/ ~FitsI8(h) THEN b
        ELSE
        LET new_w == CheckedAddOrMax(get_deltas(direction)[1], w)
            new_h == CheckedAddOrMax(get_deltas(direction)[2], h)
        IN  IF new_w < 0 \/ new_h < 0 THEN b
            ELSE IF ~HasCell(b, new_w, new_h) THEN b
            ELSE IF IsHidden(b[new_h][new_w])
            THEN [b EXCEPT ![new_h][new_w] =
                     Hidden(remove_choices(source_tile, direction, rs, b[new_h][new_w].choices))]
            ELSE b

\* the loop over the directions ending before the last one
RECURSIVE UpdateAllFromSkipsLast(_, _, _, _, _)
UpdateAllFromSkipsLast(b, rs, w, h, i) ==
    IF i >= Len(DirectionIter) THEN b
    ELSE UpdateAllFromSkipsLast(update_possible_tiles(b, rs, w, h, DirectionIter[i]),
                                rs, w, h, i + 1)

\* the `for direction in Direction::iter()` loop of reveal, from the i-th direction on
RECURSIVE UpdateAllFrom(_, _, _, _, _)
UpdateAllFrom(b, rs, w, h, i) ==
    IF i > Len(DirectionIter) THEN b
    ELSE UpdateAllFrom(update_possible_tiles(b, rs, w, h, DirectionIter[i]), rs, w, h, i + 1)

----------------------------------------------------------------------------
(* choose_tile *)

\* frequencies.get(tile).unwrap_or(&0)
FrequencyOf(fr, tile) == IF tile \in DOMAIN fr THEN fr[tile] ELSE 0

\* one copy too many, as of the range 0..=frequency
CopiesInclusive(tile, frequency) == [k \in 1..(frequency + 1) |-> tile]

\* `frequency` copies of `tile`
Copies(tile, frequency) == [k \in 1..frequency |-> tile]

\* tile_choices (lines 248-254): the candidates in an iteration order of the
\* HashSet, each repeated frequency times
RECURSIVE tile_choices(_, _)
tile_choices(choices, fr) ==
    IF choices = {} THEN <<>>
    ELSE LET tile == CHOOSE t \in choices : TRUE
         IN  Copies(tile, FrequencyOf(fr, tile)) \o tile_choices(choices \ {tile}, fr)

\* choose_tile without its early return for an empty candidate set
ChooseTilePanicsWithoutEarlyReturn(choices, fr) == Len(tile_choices(choices, fr)) = 0

\* Uniform::from(0..len) panics when the range is empty (rand asserts low < high)
ChooseTilePanics(choices, fr) == choices # {} /\ Len(tile_choices(choices, fr)) = 0

\* the values choose_tile can return when it does not panic
ChooseTileResults(choices, fr) ==
    IF choices = {} THEN {INVALID_TILE}
    ELSE LET pool == tile_choices(choices, fr)
         IN  {pool[index + 1] : index \in 0..(Len(pool) - 1)}

\* a revealed sentinel left without effect on its neighbours
RevealWithSentinelNotPropagated(b, rs, w, h, new_type) ==
    IF new_type = INVALID_TILE
    THEN [b EXCEPT ![h][w] = Revealed(new_type)]
    ELSE UpdateAllFrom([b EXCEPT ![h][w] = Revealed(new_type)], rs, w, h, 1)

\* reveal once choose_tile has returned new_type (lines 331-335)
RevealWith(b, rs, w, h, new_type) ==
    UpdateAllFrom([b EXCEPT ![h][w] = Revealed(new_type)], rs, w, h, 1)

\* reveal (lines 326-339): the outcomes of one call, a panic or the board it leaves
reveal(b, rs, fr, w, h) ==
    IF HasCell(b, w, h) /\ IsHidden(b[h][w])
    THEN IF ChooseTilePanics(b[h][w].choices, fr)
         THEN {[panicked |-> TRUE, board |-> b]}
         ELSE {[panicked |-> FALSE, board |-> RevealWith(b, rs, w, h, new_type)] :
                   new_type \in ChooseTileResults(b[h][w].choices, fr)}
    ELSE {[panicked |-> FALSE, board |-> b]}

----------------------------------------------------------------------------
(* Sample images *)

NoImage == [ok |-> FALSE]

MakeImage(w, h, data) == [ok |-> TRUE, w |-> w, h |-> h, data |-> data]

Positions(w, h) == (0..(w - 1)) \X (0..(h - 1))

\* rgb values a pixel of a sample takes
SampleColours == {INVALID_TILE, WATER_TILE, COAST_TILE, GRASS_TILE}

\* channel counts of a decoded image: grey, rgb
ChannelCounts == {1, 3}

SmallDims == {d \in (1..MaxPixels) \X (1..MaxPixels) : d[1] * d[2] <= MaxPixels}

SmallImages ==
    UNION {{MakeImage(d[1], d[2], [p \in Positions(d[1], d[2]) |-> SubSeq(f[p], 1, c)]) :
                f \in [Positions(d[1], d[2]) -> SampleColours], c \in ChannelCounts} :
           d \in SmallDims}

\* samples longer than an i8 can index: one row or one column of I8_MAX + 2 pixels,
\* colour a up to index I8_MAX - 1, b at I8_MAX, c beyond
LongLen == I8_MAX + 2

LongColour(k, a, b, c) == IF k < I8_MAX THEN a ELSE IF k = I8_MAX THEN b ELSE c

LongImages ==
    {MakeImage(LongLen, 1, [p \in Positions(LongLen, 1) |-> LongColour(p[1], WATER_TILE, b, c)]) :
         b \in SampleColours, c \in SampleColours}
    \cup
    {MakeImage(1, LongLen, [p \in Positions(1, LongLen) |-> LongColour(p[2], WATER_TILE, b, c)]) :
         b \in SampleColours, c \in SampleColours}

\* an image without pixels: the loops of lines 213-218 never run
EmptyImage == MakeImage(0, 0, [p \in Positions(0, 0) |-> <<>>])

Images == SmallImages \cup LongImages \cup {EmptyImage}

----------------------------------------------------------------------------
(* The program: main *)

NoArgs == [fn |-> "none"]

EmptyBoard == <<>>

\* the inner loop stopping one column early
NextIndexOneShort(w, h, max_w, max_h) ==
    IF w + 1 < max_w - 1 THEN <<w + 1, h>> ELSE <<0, h + 1>>

\* the next (width, height) of `for height in 0..max_h { for width in 0..max_w`,
\* <<0, max_h>> once the loops are over
NextIndex(w, h, max_w, max_h) ==
    IF w + 1 < max_w THEN <<w + 1, h>> ELSE <<0, h + 1>>

Init ==
    /\ pc = "start"
    /\ image \in Images \cup {NoImage}
    /\ rotate_rules \in BOOLEAN
    /\ ruleset = {}
    /\ frequencies = <<>>
    /\ width = 0
    /\ height = 0
    /\ board = EmptyBoard
    /\ steps = 0
    /\ args = NoArgs
    /\ out = None

\* generation_init, lines 205-212: io::read and the image's dimensions
ReadImage ==
    /\ pc = "start"
    /\ pc' = IF ~image.ok THEN "exit"
             ELSE IF image.w = 0 \/ image.h = 0 THEN "fill" ELSE "scan"
    /\ UNCHANGED <<image, rotate_rules, ruleset, frequencies, width, height, board, steps, args, out>>

\* generation_init, lines 213-218: one iteration of the pixel loops
ScanPixel ==
    /\ pc = "scan"
    /\ ruleset' = add_adjacent_rules(ruleset, image, width, height, rotate_rules)
    /\ frequencies' = update_frequencies(frequencies, image, width, height)
    /\ LET n == NextIndex(width, height, image.w, image.h)
       IN  /\ width' = n[1]
           /\ height' = n[2]
           /\ pc' = IF n[2] < image.h THEN "scan" ELSE "fill"
    /\ UNCHANGED <<image, rotate_rules, board, steps, args, out>>

\* generation_init, lines 220-229: the 0 entries, and the return of the Generation;
\* the image and rotate_rules are locals of generation_init
ReturnGeneration ==
    /\ pc = "fill"
    /\ frequencies' = FillFrequencies(frequencies, ruleset)
    /\ image' = NoImage
    /\ rotate_rules' = FALSE
    /\ width' = 0
    /\ height' = 0
    /\ pc' = "alloc"
    /\ UNCHANGED <<ruleset, board, steps, args, out>>

\* main, lines 354-367
AllocBoard ==
    /\ pc = "alloc"
    /\ board' = [h \in 0..(GridH - 1) |->
                    [w \in 0..(GridW - 1) |-> Hidden(get_all_tile_types(ruleset))]]
    /\ pc' = IF GridH = 0 \/ GridW = 0 THEN "done" ELSE "reveal"
    /\ UNCHANGED <<image, rotate_rules, ruleset, frequencies, width, height, steps, args, out>>

\* main, lines 369-373: one iteration, the call reveal(&mut board, &generation, width, height);
\* a panic ends the program
RevealStep ==
    /\ pc = "reveal"
    /\ \E r \in reveal(board, ruleset, frequencies, width, height) :
          IF r.panicked
          THEN /\ pc' = "panicked"
               /\ UNCHANGED <<board, width, height, steps>>
          ELSE /\ board' = r.board
               /\ steps' = steps + 1
               /\ LET n == NextIndex(width, height, GridW, GridH)
                  IN  /\ width' = n[1]
                      /\ height' = n[2]
                      /\ pc' = IF n[2] < GridH THEN "reveal" ELSE "done"
    /\ UNCHANGED <<image, rotate_rules, ruleset, frequencies, args, out>>

Next == ReadImage \/ ScanPixel \/ ReturnGeneration \/ AllocBoard \/ RevealStep

Spec == Init /\ [][Next]_vars

----------------------------------------------------------------------------
(* Direct calls of remove_choices and of reveal on arbitrary arguments *)

\* tile types of the directly called functions' arguments
UnitTiles == {INVALID_TILE, WATER_TILE, COAST_TILE}

RulePool(tiles) == {RuleNew(a, b, d) : a \in tiles, b \in tiles, d \in Directions}

\* the sets of at most k rules of pool
RECURSIVE RuleSetsUpTo(_, _)
RuleSetsUpTo(pool, k) ==
    IF k = 0 THEN {{}}
    ELSE LET smaller == RuleSetsUpTo(pool, k - 1)
         IN  smaller \cup {rs \cup {r} : rs \in smaller, r \in pool}

\* the maps with entries 0..maxf for some of tiles
FrequencyMaps(tiles, maxf) == UNION {[dom -> 0..maxf] : dom \in SUBSET tiles}

InitCommon ==
    /\ image = NoImage
    /\ rotate_rules = FALSE
    /\ width = 0
    /\ height = 0
    /\ steps = 0
    /\ out = None

\* the arguments of one remove_choices call
InitNarrow ==
    /\ pc = "call"
    /\ InitCommon
    /\ ruleset = {}
    /\ frequencies = <<>>
    /\ board = EmptyBoard
    /\ args \in {[fn |-> "remove_choices", source_tile |-> s, direction |-> d,
                  ruleset |-> rs, original_choices |-> c] :
                     s \in UnitTiles, d \in Directions,
                     rs \in RuleSetsUpTo(RulePool(UnitTiles), MaxRules),
                     c \in SUBSET UnitTiles}

CallRemoveChoices ==
    /\ pc = "call"
    /\ args.fn = "remove_choices"
    /\ out' = remove_choices(args.source_tile, args.direction, args.ruleset,
                             args.original_choices)
    /\ pc' = "returned"
    /\ UNCHANGED <<image, rotate_rules, ruleset, frequencies, width, height, board, steps, args>>

SpecNarrow == InitNarrow /\ [][CallRemoveChoices]_vars

\* a Generation and a board of Hidden cells for one reveal call
InitReveal ==
    /\ pc = "call"
    /\ InitCommon
    /\ ruleset \in RuleSetsUpTo(RulePool({WATER_TILE, COAST_TILE}), MaxRules)
    /\ frequencies \in FrequencyMaps(UnitTiles, MaxFreq)
    /\ \E c \in SUBSET UnitTiles :
          board = [h \in 0..(GridH - 1) |-> [w \in 0..(GridW - 1) |-> Hidden(c)]]
    /\ args = NoArgs

\* reveal(&mut board, &generation, w, h) for any w, h, the first index past the board included
CallReveal ==
    /\ pc = "call"
    /\ args = NoArgs
    /\ \E w \in 0..GridW, h \in 0..GridH :
          /\ args' = [fn |-> "reveal", width |-> w, height |-> h, board |-> board]
          /\ \E r \in reveal(board, ruleset, frequencies, w, h) :
                /\ board' = r.board
                /\ pc' = IF r.panicked THEN "panicked" ELSE "returned"
    /\ UNCHANGED <<image, rotate_rules, ruleset, frequencies, width, height, steps, out>>

SpecReveal == InitReveal /\ [][CallReveal]_vars

\* the arguments of one choose_tile call
InitChoose ==
    /\ pc = "call"
    /\ InitCommon
    /\ ruleset = {}
    /\ frequencies = <<>>
    /\ board = EmptyBoard
    /\ args \in {[fn |-> "choose_tile", choices |-> c, frequencies |-> fr] :
                     c \in SUBSET UnitTiles, fr \in FrequencyMaps(UnitTiles, MaxCount)}

\* choose_tile(&choices, &frequencies): a panic, or one of the tiles it can return
CallChooseTile ==
    /\ pc = "call"
    /\ args.fn = "choose_tile"
    /\ IF ChooseTilePanics(args.choices, args.frequencies)
       THEN pc' = "panicked" /\ out' = out
       ELSE pc' = "returned" /\ out' \in ChooseTileResults(args.choices, args.frequencies)
    /\ UNCHANGED <<image, rotate_rules, ruleset, frequencies, width, height, board, steps, args>>

SpecChoose == InitChoose /\ [][CallChooseTile]_vars

\* Frequencies near the u32 limit and a one-pixel image for one update_frequencies call
InitUpdateFrequencies ==
    /\ pc = "call"
    /\ rotate_rules = FALSE
    /\ width = 0
    /\ height = 0
    /\ steps = 0
    /\ out = None
    /\ ruleset = {}
    /\ board = EmptyBoard
    /\ image \in {MakeImage(1, 1, [q \in Positions(1, 1) |-> SubSeq(col, 1, c)]) :
                     col \in SampleColours, c \in ChannelCounts}
    /\ frequencies \in UNION {[dom -> {1, U32_MAX - 1, U32_MAX}] : dom \in SUBSET UnitTiles}
    /\ args = NoArgs

\* update_frequencies(&mut frequencies, &image, 0, 0)
CallUpdateFrequencies ==
    /\ pc = "call"
    /\ args = NoArgs
    /\ image.ok
    /\ args' = [fn |-> "update_frequencies", frequencies |-> frequencies]
    /\ frequencies' = update_frequencies(frequencies, image, 0, 0)
    /\ pc' = "returned"
    /\ UNCHANGED <<image, rotate_rules, ruleset, width, height, board, steps, out>>

\* generation_init and main, and direct update_frequencies calls near the limit
SpecCount == (Init \/ InitUpdateFrequencies) /\ [][Next \/ CallUpdateFrequencies]_vars

----------------------------------------------------------------------------
(* Properties *)

Cells(b) == {c \in (0..(GridW - 1)) \X (0..(GridH - 1)) : HasCell(b, c[1], c[2])}

CellAt(b, c) == b[c[2]][c[1]]

\* C1: during synthesis every cell Revealed with a tile other than INVALID_TILE is
\* compatible with its Revealed left neighbour (rule in direction Right) and its
\* Revealed upper neighbour (rule in direction Down).
C1_RevealedCompatible ==
    \A c \in Cells(board) :
        (IsRevealed(CellAt(board, c)) /\ CellAt(board, c).tile # INVALID_TILE) =>
            /\ (HasCell(board, c[1] - 1, c[2]) /\ IsRevealed(board[c[2]][c[1] - 1])) =>
                   RuleNew(board[c[2]][c[1] - 1].tile, CellAt(board, c).tile, "Right") \in ruleset
            /\ (HasCell(board, c[1], c[2] - 1) /\ IsRevealed(board[c[2] - 1][c[1]])) =>
                   RuleNew(board[c[2] - 1][c[1]].tile, CellAt(board, c).tile, "Down") \in ruleset

\* a finished board whose cell (1,1) and its left and upper neighbours hold
\* tiles other than the sentinel, under a RuleSet that forbids some pair
C1_Witness ==
    /\ pc = "done"
    /\ \A c \in {<<1, 1>>, <<0, 1>>, <<1, 0>>} : CellAt(board, c).tile # INVALID_TILE
    /\ board[1][0].tile # board[1][1].tile
    /\ \E a \in get_all_tile_types(ruleset), b \in get_all_tile_types(ruleset) :
          RuleNew(a, b, "Right") \notin ruleset

\* C2: remove_choices leaves candidates intersected with the tiles the RuleSet
\* allows next to the source tile in the direction, for every candidate set and
\* every RuleSet, the empty one included (which then yields the empty set).
C2_NarrowIsIntersection ==
    (pc = "returned" /\ args.fn = "remove_choices") =>
        out = {t \in args.original_choices :
                  RuleNew(args.source_tile, t, args.direction) \in args.ruleset}

\* the cell a logged reveal call was applied to, as it was before the call
RevealedCellBefore == args.board[args.height][args.width]

RevealCallOnHidden ==
    /\ args.fn = "reveal"
    /\ HasCell(args.board, args.width, args.height)
    /\ IsHidden(RevealedCellBefore)

\* C3: reveal of a Hidden cell with a non-empty candidate set whose candidates all
\* have frequency 0 or no entry does not fail and leaves the cell Revealed(INVALID_TILE).
C3_ZeroPoolRevealsSentinel ==
    (/\ RevealCallOnHidden
     /\ RevealedCellBefore.choices # {}
     /\ \A t \in RevealedCellBefore.choices : FrequencyOf(frequencies, t) = 0) =>
        /\ pc = "returned"
        /\ board[args.height][args.width] = Revealed(INVALID_TILE)

\* C4: reveal of a Hidden cell with an empty candidate set never fails and leaves
\* the cell Revealed(INVALID_TILE), whatever the Frequencies.
C4_EmptyRevealsSentinel ==
    (RevealCallOnHidden /\ RevealedCellBefore.choices = {}) =>
        /\ pc = "returned"
        /\ board[args.height][args.width] = Revealed(INVALID_TILE)

\* a reveal of a cell without candidates has returned, under Frequencies with a positive count
C4_Witness ==
    /\ RevealCallOnHidden
    /\ RevealedCellBefore.choices = {}
    /\ pc = "returned"
    /\ board[args.height][args.width] = Revealed(INVALID_TILE)
    /\ \E t \in DOMAIN frequencies : frequencies[t] > 0

\* C5: the driver never crashes; when it visits (width, height) it has made
\* height * GridW + width < GridW * GridH reveal calls, the cell is there and Hidden
\* and the reveal call has an outcome that is not a panic, so the step is taken; and
\* it ends after exactly GridW * GridH reveal calls with every cell Revealed.
C5_DriverTerminatesAllRevealed ==
    /\ pc # "panicked"
    /\ pc = "reveal" =>
          /\ steps = height * GridW + width
          /\ steps < GridW * GridH
          /\ HasCell(board, width, height) /\ IsHidden(board[height][width])
          /\ \A r \in reveal(board, ruleset, frequencies, width, height) : ~r.panicked
    /\ pc = "done" =>
          /\ steps = GridW * GridH
          /\ \A h \in 0..(GridH - 1), w \in 0..(GridW - 1) :
                HasCell(board, w, h) /\ IsRevealed(board[h][w])

\* a finished board from a sample of three tile types, with no sentinel on it
C5_Witness ==
    /\ pc = "done"
    /\ steps = GridW * GridH
    /\ Cardinality(get_all_tile_types(ruleset)) = 3
    /\ \A c \in Cells(board) : IsRevealed(CellAt(board, c)) /\ CellAt(board, c).tile # INVALID_TILE

\* C6: a Revealed cell stays Revealed with the same tile in every later state.
C6_RevealedIsFinal ==
    [][\A c \in Cells(board) : IsRevealed(CellAt(board, c)) => CellAt(board', c) = CellAt(board, c)]_vars

\* the first cell was revealed with a tile of the sample and two more reveals
\* (which narrow around it) have followed
C6_Witness ==
    /\ steps >= 3
    /\ IsRevealed(board[0][0])
    /\ board[0][0].tile # INVALID_TILE

\* C7: a Hidden cell's candidate set after a step is a subset of its candidate
\* set before the step.
C7_CandidatesOnlyShrink ==
    [][\A c \in Cells(board) :
          (IsHidden(CellAt(board, c)) /\ IsHidden(CellAt(board', c))) =>
              CellAt(board', c).choices \subseteq CellAt(board, c).choices]_vars

\* a Hidden cell that has lost some but not all of the alphabet
C7_Witness ==
    \E c \in Cells(board) :
        /\ IsHidden(CellAt(board, c))
        /\ CellAt(board, c).choices # {}
        /\ CellAt(board, c).choices # get_all_tile_types(ruleset)

Classifiable(img) == \A p \in DOMAIN img.data : Len(img.data[p]) >= 3

TileAt(img, p) == SubSeq(img.data[p], 1, 3)

Shifted(p, d) == <<p[1] + get_deltas(d)[1], p[2] + get_deltas(d)[2]>>

Opposite(d) == IF d = "Up" THEN "Down" ELSE IF d = "Down" THEN "Up"
               ELSE IF d = "Left" THEN "Right" ELSE "Left"

\* C8: after the scan of a sample of any width and height whose pixels are all
\* classifiable, the RuleSet holds (t(p), t(q), d) and (t(q), t(p), opposite(d))
\* for every two in-bounds pixels p and q = p + delta(d).
C8_AllAdjacentPairsLearned ==
    (pc = "fill" /\ image.ok /\ Classifiable(image)) =>
        \A p \in DOMAIN image.data, d \in Directions :
            Shifted(p, d) \in DOMAIN image.data =>
                /\ [from |-> TileAt(image, p), to |-> TileAt(image, Shifted(p, d)),
                    direction |-> d] \in ruleset
                /\ [from |-> TileAt(image, Shifted(p, d)), to |-> TileAt(image, p),
                    direction |-> Opposite(d)] \in ruleset

\* some in-bounds pixels p and q = p + delta(d) carry the tiles of rule (a, b, d)
Witnessed(img, a, b, d) ==
    \E p \in DOMAIN img.data :
        /\ Shifted(p, d) \in DOMAIN img.data
        /\ TileAt(img, p) = a
        /\ TileAt(img, Shifted(p, d)) = b

\* C9: with rotate_rules off, every learned rule (a, b, d) is witnessed by two
\* distinct in-bounds pixels p, q = p + delta(d) (or is the mirror of such a rule),
\* for a sample of any size; and the 2x1 sample A B yields exactly
\* {(A, B, Right), (B, A, Left)}.
C9_RulesOnlyFromInBoundsPairs ==
    (pc = "fill" /\ image.ok /\ Classifiable(image) /\ ~rotate_rules) =>
        /\ \A r \in ruleset :
              \/ Witnessed(image, r.from, r.to, r.direction)
              \/ Witnessed(image, r.to, r.from, Opposite(r.direction))
        /\ (image.w = 2 /\ image.h = 1) =>
              ruleset = {[from |-> TileAt(image, <<0, 0>>), to |-> TileAt(image, <<1, 0>>),
                          direction |-> "Right"],
                         [from |-> TileAt(image, <<1, 0>>), to |-> TileAt(image, <<0, 0>>),
                          direction |-> "Left"]}

\* C10: the RuleSet is closed under mirroring, with rotate_rules on or off: with
\* (a, b, d) it holds (b, a, opposite(d)).
C10_RuleSetMirrorClosed ==
    \A r \in ruleset :
        [from |-> r.to, to |-> r.from, direction |-> Opposite(r.direction)] \in ruleset

\* a learned RuleSet with a rule between two different tiles that is not allowed
\* in the perpendicular direction
C10_Witness ==
    /\ pc = "fill"
    /\ \E r \in ruleset :
          /\ r.from # r.to
          /\ r.direction = "Right"
          /\ [from |-> r.from, to |-> r.to, direction |-> "Down"] \notin ruleset

PixelsOf(img, t) == {p \in DOMAIN img.data : TileAt(img, p) = t}

\* C11: after generation_init on a classifiable sample, Frequencies has exactly the
\* tile types of the sample and Frequencies[t] is the number of pixels of type t
\* (held at the u32 limit); one more pixel of a type whose count is at the limit
\* leaves the count at the limit, and below the limit adds one.
C11_FrequenciesCountPixels ==
    /\ (pc = "fill" /\ image.ok /\ Classifiable(image)) =>
          LET final == FillFrequencies(frequencies, ruleset)
          IN  /\ DOMAIN final = {TileAt(image, p) : p \in DOMAIN image.data}
              /\ \A t \in DOMAIN final :
                    final[t] = IF Cardinality(PixelsOf(image, t)) >= U32_MAX THEN U32_MAX
                               ELSE Cardinality(PixelsOf(image, t))
    /\ (pc = "returned" /\ args.fn = "update_frequencies" /\ Classifiable(image)) =>
          LET t == TileAt(image, <<0, 0>>)
              old == args.frequencies
          IN  /\ DOMAIN frequencies = DOMAIN old \cup {t}
              /\ \A u \in DOMAIN old \ {t} : frequencies[u] = old[u]
              /\ frequencies[t] = IF t \notin DOMAIN old THEN 1
                                  ELSE IF old[t] = U32_MAX THEN U32_MAX ELSE old[t] + 1

\* a scanned sample with one tile type counted once and another counted three times
C11_Witness ==
    /\ pc = "fill"
    /\ image.ok
    /\ Classifiable(image)
    /\ \E t \in DOMAIN frequencies, u \in DOMAIN frequencies :
          /\ frequencies[t] = 1 /\ Cardinality(PixelsOf(image, t)) = 1
          /\ frequencies[u] = 3 /\ Cardinality(PixelsOf(image, u)) = 3

\* C12: when a sample pixel cannot be classified, generation_init returns no
\* Generation: the step that ends generation_init for such a sample ends the
\* program, and neither the board is allocated nor a cell revealed.
C12_UnclassifiableSampleAborts ==
    [][(pc = "fill" /\ image.ok /\ ~Classifiable(image)) => pc' = "exit"]_vars

\* C13: a sample with at most one pixel yields the empty RuleSet, and with the
\* empty RuleSet the driver never panics, every cell is Hidden with no
\* candidate until it is visited, every revealed cell is INVALID_TILE, and the
\* finished Grid is all Revealed.
C13_DegenerateSampleAllSentinel ==
    /\ (pc = "fill" /\ image.ok /\ image.w * image.h <= 1) => ruleset = {}
    /\ (pc \in {"reveal", "done", "panicked"} /\ ruleset = {}) =>
          /\ pc # "panicked"
          /\ \A c \in Cells(board) :
                IF IsRevealed(CellAt(board, c))
                THEN CellAt(board, c) = Revealed(INVALID_TILE)
                ELSE pc # "done" /\ CellAt(board, c) = Hidden({})

\* the finished Grid of a one-pixel classifiable sample: its pixel was counted, no rule learned
C13_Witness ==
    /\ pc = "done"
    /\ ruleset = {}
    /\ DOMAIN frequencies # {}
    /\ Cells(board) = (0..(GridW - 1)) \X (0..(GridH - 1))
    /\ \A c \in Cells(board) : CellAt(board, c) = Revealed(INVALID_TILE)

\* with (a, b, d) for some d, the RuleSet holds (a, b, d) for every d
DirectionIndependent(rs) ==
    \A r \in rs, d \in Directions : [from |-> r.from, to |-> r.to, direction |-> d] \in rs

\* C14: with rotate_rules on, after the scan of a classifiable sample the RuleSet
\* holds (a, b, d) and (b, a, d) in all four directions d for every two 4-adjacent
\* in-bounds pixels with tiles a and b, and a rule it holds in one direction it
\* holds in every direction.
C14_RotatedRulesAllDirections ==
    (pc = "fill" /\ image.ok /\ Classifiable(image) /\ rotate_rules) =>
        /\ \A p \in DOMAIN image.data, d \in Directions :
              Shifted(p, d) \in DOMAIN image.data =>
                  \A rd \in Directions :
                      /\ [from |-> TileAt(image, p), to |-> TileAt(image, Shifted(p, d)),
                          direction |-> rd] \in ruleset
                      /\ [from |-> TileAt(image, Shifted(p, d)), to |-> TileAt(image, p),
                          direction |-> rd] \in ruleset
        /\ DirectionIndependent(ruleset)

\* the tiles the RuleSet allows next to the cell at c in direction d: every tile
\* when that cell does not exist or is still Hidden
AllowedBy(b, rs, c, d) ==
    IF HasCell(b, c[1], c[2]) /\ IsRevealed(CellAt(b, c))
    THEN {r.to : r \in {q \in rs : q.from = CellAt(b, c).tile /\ q.direction = d}}
    ELSE get_all_tile_types(rs)

\* C15: while the driver scans, the candidate set of every Hidden cell, the cell
\* about to be visited included, is the alphabet narrowed by its left neighbour
\* in direction Right and by its upper neighbour in direction Down, when these
\* exist and are Revealed, and by nothing else: its right and lower neighbours
\* are still Hidden. The left and upper neighbours of the visited cell are Revealed.
C15_CandidatesFromLeftAndUpper ==
    pc = "reveal" =>
        /\ HasCell(board, width, height)
        /\ IsHidden(board[height][width])
        /\ width > 0 => IsRevealed(board[height][width - 1])
        /\ height > 0 => IsRevealed(board[height - 1][width])
        /\ \A c \in Cells(board) :
              IsHidden(CellAt(board, c)) =>
                  /\ CellAt(board, c).choices =
                        get_all_tile_types(ruleset)
                            \cap AllowedBy(board, ruleset, <<c[1] - 1, c[2]>>, "Right")
                            \cap AllowedBy(board, ruleset, <<c[1], c[2] - 1>>, "Down")
                  /\ HasCell(board, c[1] + 1, c[2]) => IsHidden(board[c[2]][c[1] + 1])
                  /\ HasCell(board, c[1], c[2] + 1) => IsHidden(board[c[2] + 1][c[1]])

\* the cell about to be visited has both neighbours, and its candidates are fewer
\* than what either neighbour alone allows
C15_Witness ==
    /\ pc = "reveal"
    /\ width > 0
    /\ height > 0
    /\ board[height][width].choices # {}
    /\ board[height][width].choices # AllowedBy(board, ruleset, <<width - 1, height>>, "Right")
    /\ board[height][width].choices # AllowedBy(board, ruleset, <<width, height - 1>>, "Down")

\* C16: once generation_init has returned, every tile type that is the from or
\* the to of a rule has an entry in Frequencies.
C16_RuleTilesHaveFrequency ==
    pc \in {"alloc", "reveal", "done", "panicked"} =>
        \A r \in ruleset : r.from \in DOMAIN frequencies /\ r.to \in DOMAIN frequencies

\* a returned Generation with rules between at least three tile types
C16_Witness ==
    /\ pc = "alloc"
    /\ Cardinality(get_all_tile_types(ruleset)) >= 3
    /\ get_all_tile_types(ruleset) \subseteq DOMAIN frequencies

\* the directions in which the cell at c is the direct neighbour of the cell at v
DirectionsTo(v, c) == {d \in Directions : Shifted(v, d) = c}

\* C17: one reveal of the driver at (width, height) turns that Hidden cell into a
\* Revealed one; every Hidden direct neighbour in direction d keeps exactly those
\* of its candidates that the RuleSet allows after the new tile in direction d;
\* every other cell, the Revealed neighbours included, the shape of the board,
\* the RuleSet and the Frequencies are unchanged. A reveal that panics changes nothing.
C17_RevealChangesOnlyNeighbours ==
    [][pc = "reveal" =>
          IF pc' = "panicked"
          THEN board' = board /\ ruleset' = ruleset /\ frequencies' = frequencies
          ELSE LET v == <<width, height>>
               IN  /\ IsHidden(CellAt(board, v))
                   /\ IsRevealed(CellAt(board', v))
                   /\ Cells(board') = Cells(board)
                   /\ DOMAIN board' = DOMAIN board
                   /\ \A c \in Cells(board) \ {v} :
                         IF DirectionsTo(v, c) # {} /\ IsHidden(CellAt(board, c))
                         THEN \A d \in DirectionsTo(v, c) :
                                 CellAt(board', c) =
                                     Hidden({t \in CellAt(board, c).choices :
                                                [from |-> CellAt(board', v).tile, to |-> t,
                                                 direction |-> d] \in ruleset})
                         ELSE CellAt(board', c) = CellAt(board, c)
                   /\ ruleset' = ruleset
                   /\ frequencies' = frequencies]_vars

\* the board after the first reveal: the right and the lower neighbour have lost
\* some but not all candidates, the diagonal cell still has the whole alphabet
C17_Witness ==
    /\ pc = "reveal"
    /\ width = 1
    /\ height = 0
    /\ IsRevealed(board[0][0])
    /\ board[0][1].choices # {}
    /\ board[0][1].choices # get_all_tile_types(ruleset)
    /\ board[1][0].choices # {}
    /\ board[1][0].choices # get_all_tile_types(ruleset)
    /\ board[0][1].choices # board[1][0].choices
    /\ board[1][1] = Hidden(get_all_tile_types(ruleset))

\* how often tile t occurs in the sequence pool
Occurrences(pool, t) == Cardinality({k \in DOMAIN pool : pool[k] = t})

\* the candidates with a positive frequency
Eligible(choices, fr) == {t \in choices : t \in DOMAIN fr /\ fr[t] > 0}

C19_SentinelAbsorbingLowerRight ==
    (pc \in {"reveal", "done", "panicked"} /\ INVALID_TILE \notin DOMAIN frequencies) =>
        \A c \in Cells(board), e \in Cells(board) :
            (c[1] <= e[1] /\ c[2] <= e[2] /\ CellAt(board, c) = Revealed(INVALID_TILE)) =>
                IF IsRevealed(CellAt(board, e))
                THEN CellAt(board, e) = Revealed(INVALID_TILE)
                ELSE pc # "done"

\* a finished Grid whose left column holds sample tiles and whose right column,
\* from its top cell down, holds the sentinel
C19_Witness ==
    /\ pc = "done"
    /\ INVALID_TILE \notin DOMAIN frequencies
    /\ IsRevealed(board[0][0]) /\ board[0][0].tile # INVALID_TILE
    /\ IsRevealed(board[1][0]) /\ board[1][0].tile # INVALID_TILE
    /\ board[0][1] = Revealed(INVALID_TILE)
    /\ board[1][1] = Revealed(INVALID_TILE)

\* the end of generation_init on a classifiable sample: the zero fill adds no
\* entry, and every tile type of a rule has a count of at least 1
FillAddsNothing ==
    (pc = "fill" /\ image.ok /\ Classifiable(image)) =>
        /\ frequencies' = frequencies
        /\ \A t \in get_all_tile_types(ruleset) : t \in DOMAIN frequencies /\ frequencies[t] >= 1

============================================================================
